---- MODULE Spec2Model ----
(***************************************************************************)
(* A model of better-auth-rate-limiter: the checkRateLimit endpoint of     *)
(* src/src/index.ts and the three storage backends of src/src/storage.ts.  *)
(*                                                                         *)
(* Strings are sequences of one-character strings, so that the key         *)
(* derivation and the pattern matcher work on characters as the code does. *)
(* Time is the value of Date.now() in milliseconds.  A request is split    *)
(* where the handler awaits: the storage read (Request), the synchronous   *)
(* block after it (Decide) and, for the backends that do I/O, the landing  *)
(* of the write (Write).  The clock may advance between any two steps and  *)
(* between the separate Date.now() reads inside one step.                  *)
(***************************************************************************)
EXTENDS Integers, Sequences, FiniteSets, TLC

VARIABLES
    cfg,           \* the options the plugin was constructed with
    clock,         \* Date.now()
    store,         \* the backend's contents: key -> physical entry
    patternCache,  \* patternCache of rateLimiter(): pattern -> compiled regex
    req,           \* per request slot: where the handler is, and its locals
    last,          \* the response most recently returned, with what it saw
    hist,          \* history: per key, the last response returned for it
    stats,         \* history: admissions and races, the errors init logged
    eq             \* the three backends side by side (equivalence runs)

vars == <<cfg, clock, store, patternCache, req, last, hist, stats, eq>>

----------------------------------------------------------------------------
(* Bounds of the model *)

MaxTime == 3000
MaxCount == 4
MaxRequests == 5
MaxKeys == 2
MaxConcTime == 1500
MaxIndepTime == 1000
NProcs == 2

TickSteps == {500, 1000}
Drift == {0, 500}

(* Program constants *)

MsPerSec == 1000

----------------------------------------------------------------------------
(* Strings *)

RlPrefix == <<"r", "l", ":">>
UserPrefix == <<"u", "s", "e", "r", ":">>
Sep == <<"|">>

PathA == <<"/", "a">>
PathBX == <<"/", "b", "/", "x">>
PathBY == <<"/", "b", "/", "y">>
PathH == <<"/", "h">>
PatB == <<"/", "b", "/", "*">>
PatStar == <<"*">>
Path7 == <<"7">>
PatAi == <<"/", "a", "p", "i", "/", "a", "i", "/", "*">>
PathGenerate ==
    <<"/", "a", "p", "i", "/", "a", "i", "/",
      "g", "e", "n", "e", "r", "a", "t", "e">>

Ip1 == <<"1", ".", "1">>
Ip2 == <<"1", ".", "2">>
User1 == <<"u", "1">>
User2 == <<"u", "2">>
UserBar == <<"u", "1", "|", "x">>
PathY == <<"y">>
PathXY == <<"x", "|", "y">>

NoIp == <<>>
NoSession == [state |-> "none", id |-> <<>>]
SessionThrows == [state |-> "throws", id |-> <<>>]
SessionOf(u) == [state |-> "ok", id |-> u]

----------------------------------------------------------------------------
(* matchPath: the pattern is rewritten to the source of a regex (split at  *)
(* "**", then at "*", the pieces escaped and joined), and new RegExp reads *)
(* the source into a sequence of tokens: a literal character, "seg" for    *)
(* [^/]* and "any" for .* (which stops at a line terminator).              *)

Lit(c) == [t |-> "lit", c |-> c]
SegTok == [t |-> "seg", c |-> ""]
AnyTok == [t |-> "any", c |-> ""]

LineTerminators == {"\n", "\r"}

Escaped ==
    {".", "*", "+", "?", "^", "$", "{", "}", "(", ")", "|", "[", "]", "\\"}
SegSrc == <<"[", "^", "/", "]", "*">>
AnySrc == <<".", "*">>

(* s.replace(/[.*+?^${}()|[\]\\]/g, "\\$&") *)
RECURSIVE Escape(_)
Escape(str) ==
    IF str = <<>> THEN <<>>
    ELSE (IF str[1] \in Escaped THEN <<"\\", str[1]>> ELSE <<str[1]>>)
            \o Escape(Tail(str))

(* pattern.split("**") ... .join(".*") around segment.split("*") ...       *)
(* .join("[^/]*"): the leftmost "**" first, a single "*" otherwise         *)
RECURSIVE RegexStr(_)
RegexStr(pattern) ==
    IF pattern = <<>> THEN <<>>
    ELSE IF Len(pattern) >= 2 /\ pattern[1] = "*" /\ pattern[2] = "*"
         THEN AnySrc \o RegexStr(SubSeq(pattern, 3, Len(pattern)))
    ELSE IF pattern[1] = "*"
         THEN SegSrc \o RegexStr(Tail(pattern))
    ELSE Escape(<<pattern[1]>>) \o RegexStr(Tail(pattern))

HasPrefix(str, prefix) ==
    Len(str) >= Len(prefix) /\ SubSeq(str, 1, Len(prefix)) = prefix

(* new RegExp(`^${regexStr}$`): an escaped character is a literal, the     *)
(* two joiners are the only unescaped syntax the source can hold           *)
RECURSIVE ParseRegex(_)
ParseRegex(src) ==
    IF src = <<>> THEN <<>>
    ELSE IF src[1] = "\\" /\ Len(src) >= 2
         THEN <<Lit(src[2])>> \o ParseRegex(SubSeq(src, 3, Len(src)))
    ELSE IF HasPrefix(src, SegSrc)
         THEN <<SegTok>> \o ParseRegex(SubSeq(src, Len(SegSrc) + 1, Len(src)))
    ELSE IF HasPrefix(src, AnySrc)
         THEN <<AnyTok>> \o ParseRegex(SubSeq(src, Len(AnySrc) + 1, Len(src)))
    ELSE <<Lit(src[1])>> \o ParseRegex(Tail(src))

Compile(pattern) == ParseRegex(RegexStr(pattern))

RECURSIVE RegexTest(_, _)
RegexTest(regex, path) ==
    IF regex = <<>> THEN path = <<>>
    ELSE LET tok == Head(regex)
             Rest(k) == SubSeq(path, k + 1, Len(path))
             Run(k, bad) == \A i \in 1..k : path[i] \notin bad
         IN  CASE tok.t = "lit" ->
                    /\ path # <<>>
                    /\ path[1] = tok.c
                    /\ RegexTest(Tail(regex), Tail(path))
               [] tok.t = "seg" ->
                    \E k \in 0..Len(path) :
                        Run(k, {"/"}) /\ RegexTest(Tail(regex), Rest(k))
               [] tok.t = "any" ->
                    \E k \in 0..Len(path) :
                        Run(k, LineTerminators) /\ RegexTest(Tail(regex), Rest(k))

HasStar(pattern) == \E i \in 1..Len(pattern) : pattern[i] = "*"

CacheGet(cache, pattern) ==
    IF pattern \in DOMAIN cache THEN cache[pattern] ELSE Compile(pattern)

CachePut(cache, pattern) ==
    IF pattern \in DOMAIN cache THEN cache
    ELSE [q \in DOMAIN cache \cup {pattern} |->
            IF q = pattern THEN Compile(pattern) ELSE cache[q]]

matchPath(pattern, path, cache) ==
    IF ~HasStar(pattern) THEN pattern = path
    ELSE RegexTest(CacheGet(cache, pattern), path)

----------------------------------------------------------------------------
(* findMatchingRule: the first pattern, in declaration order, that matches *)

NoRule == [found |-> FALSE, disabled |-> FALSE, window |-> 0, max |-> 0]
Rule(w, m) == [found |-> TRUE, disabled |-> FALSE, window |-> w, max |-> m]
RuleOff == [found |-> TRUE, disabled |-> TRUE, window |-> 0, max |-> 0]

(* Object.keys(customRules): customRules is the table in declaration order; *)
(* the keys that are array indices ("0", "7", "42": canonical decimal       *)
(* numbers below 2^32 - 1) come first, in ascending numeric order, and the *)
(* other keys follow in declaration order.  Every canonical number of up   *)
(* to nine digits is an array index; the model has no longer ones.         *)
DigitVal ==
    [c \in {"0", "1", "2", "3", "4", "5", "6", "7", "8", "9"} |->
        CASE c = "0" -> 0 [] c = "1" -> 1 [] c = "2" -> 2 [] c = "3" -> 3
          [] c = "4" -> 4 [] c = "5" -> 5 [] c = "6" -> 6 [] c = "7" -> 7
          [] c = "8" -> 8 [] c = "9" -> 9]

MaxIndexDigits == 9

RECURSIVE NumVal(_)
NumVal(str) ==
    IF str = <<>> THEN 0
    ELSE 10 * NumVal(SubSeq(str, 1, Len(str) - 1)) + DigitVal[str[Len(str)]]

IsArrayIndex(str) ==
    /\ str # <<>>
    /\ Len(str) <= MaxIndexDigits
    /\ \A i \in 1..Len(str) : str[i] \in DOMAIN DigitVal
    /\ Len(str) > 1 => str[1] # "0"

ObjectKeys(customRules) ==
    LET n == Len(customRules)
        idx == {i \in 1..n : IsArrayIndex(customRules[i].pattern)}
        val(i) == NumVal(customRules[i].pattern)
        rank(i) ==
            IF i \in idx
                THEN Cardinality({j \in idx : val(j) < val(i)}) + 1
            ELSE Cardinality(idx) + Cardinality({j \in (1..n) \ idx : j < i}) + 1
    IN  [k \in 1..n |-> customRules[CHOOSE i \in 1..n : rank(i) = k]]

MatchedIndex(path, keys, cache) ==
    LET hits == {i \in 1..Len(keys) : matchPath(keys[i].pattern, path, cache)}
    IN  IF hits = {} THEN 0
        ELSE CHOOSE i \in hits : \A j \in hits : i <= j

(* mutant: a rule is taken by its truthiness, so that false counts as none *)
findMatchingRule_IgnoresFalse(path, customRules, cache) ==
    LET keys == ObjectKeys(customRules)
        i == MatchedIndex(path, keys, cache)
    IN  IF i = 0 \/ keys[i].rule.disabled THEN NoRule ELSE keys[i].rule

findMatchingRule(path, customRules, cache) ==
    LET keys == ObjectKeys(customRules)
        i == MatchedIndex(path, keys, cache)
    IN  IF i = 0 THEN NoRule ELSE keys[i].rule

(* find() stops at the first match: the patterns tried are those up to it, *)
(* and each of them that holds a "*" is compiled and cached.               *)
RECURSIVE CacheAfterUpTo(_, _, _)
CacheAfterUpTo(keys, n, cache) ==
    IF n = 0 THEN cache
    ELSE LET c == CacheAfterUpTo(keys, n - 1, cache)
             pat == keys[n].pattern
         IN  IF HasStar(pat) THEN CachePut(c, pat) ELSE c

CacheAfter(path, customRules, cache) ==
    LET keys == ObjectKeys(customRules)
        i == MatchedIndex(path, keys, cache)
    IN  CacheAfterUpTo(keys, IF i = 0 THEN Len(keys) ELSE i, cache)

----------------------------------------------------------------------------
(* resolveIdentifier *)

NoIdentifier == <<>>

(* mutant: requests without an identity share one anonymous counter *)
resolveIdentifier_AnonBucket(detection, sess, ip, path) ==
    IF detection \in {"user", "ip-and-user"} /\ sess.state = "ok"
        THEN UserPrefix \o sess.id \o Sep \o path
    ELSE IF detection = "user" \/ ip = NoIp THEN Sep \o path
    ELSE ip \o Sep \o path

(* mutant: in mode "ip-and-user" the IP is preferred to the user *)
resolveIdentifier_IpFirst(detection, sess, ip, path) ==
    IF detection = "ip-and-user" /\ ip # NoIp THEN ip \o Sep \o path
    ELSE IF detection \in {"user", "ip-and-user"} /\ sess.state = "ok"
        THEN UserPrefix \o sess.id \o Sep \o path
    ELSE IF detection = "user" THEN NoIdentifier
    ELSE IF ip = NoIp THEN NoIdentifier
    ELSE ip \o Sep \o path

(* mutant: a session lookup that throws ends the resolution with no        *)
(* identifier, also in mode "ip-and-user"                                  *)
resolveIdentifier_NoFallback(detection, sess, ip, path) ==
    IF detection \in {"user", "ip-and-user"} /\ sess.state = "ok"
        THEN UserPrefix \o sess.id \o Sep \o path
    ELSE IF detection = "user" THEN NoIdentifier
    ELSE IF detection = "ip-and-user" /\ sess.state = "throws" THEN NoIdentifier
    ELSE IF ip = NoIp THEN NoIdentifier
    ELSE ip \o Sep \o path

(* mutant: the path is left out of the identifier *)
resolveIdentifier_NoPath(detection, sess, ip, path) ==
    IF detection \in {"user", "ip-and-user"} /\ sess.state = "ok"
        THEN UserPrefix \o sess.id
    ELSE IF detection = "user" THEN NoIdentifier
    ELSE IF ip = NoIp THEN NoIdentifier
    ELSE ip

resolveIdentifier(detection, sess, ip, path) ==
    IF detection \in {"user", "ip-and-user"} /\ sess.state = "ok"
        THEN UserPrefix \o sess.id \o Sep \o path
    ELSE IF detection = "user" THEN NoIdentifier
    ELSE IF ip = NoIp THEN NoIdentifier
    ELSE ip \o Sep \o path

storageKey(identifier) == RlPrefix \o identifier

----------------------------------------------------------------------------
(* Finite maps *)

EmptyMap == [x \in {} |-> x]
MapPut(m, k, v) == [x \in DOMAIN m \cup {k} |-> IF x = k THEN v ELSE m[x]]
MapDel(m, k) == [x \in DOMAIN m \ {k} |-> m[x]]

(* RateLimitEntry, and what get returns: an entry or null *)

Entry(k, c, l) == [key |-> k, count |-> c, lastRequest |-> l]
NoData == [present |-> FALSE, key |-> <<>>, count |-> 0, lastRequest |-> 0]
Found(e) ==
    [present |-> TRUE, key |-> e.key, count |-> e.count, lastRequest |-> e.lastRequest]

----------------------------------------------------------------------------
(* createMemoryStorage *)

(* mutant: an entry is still served at the instant it expires *)
MemoryGet_Late(memory, key, t) ==
    IF key \notin DOMAIN memory THEN [data |-> NoData, store |-> memory]
    ELSE IF t > memory[key].expiresAt
        THEN [data |-> NoData, store |-> MapDel(memory, key)]
    ELSE [data |-> Found(memory[key].data), store |-> memory]

MemoryGet(memory, key, t) ==
    IF key \notin DOMAIN memory THEN [data |-> NoData, store |-> memory]
    ELSE IF t >= memory[key].expiresAt
        THEN [data |-> NoData, store |-> MapDel(memory, key)]
    ELSE [data |-> Found(memory[key].data), store |-> memory]

MemorySet(memory, key, value, t, defaultWindow) ==
    MapPut(memory, key,
           [data |-> value, expiresAt |-> t + defaultWindow * MsPerSec])

(* The secondaryStorage collaborator: a string store with a time to live   *)

CacheGetValue(cache, key, t) ==
    IF key \notin DOMAIN cache THEN [hit |-> FALSE, value |-> <<>>, store |-> cache]
    ELSE IF t >= cache[key].expiresAt
        THEN [hit |-> FALSE, value |-> <<>>, store |-> MapDel(cache, key)]
    ELSE [hit |-> TRUE, value |-> cache[key].value, store |-> cache]

CacheSetValue(cache, key, value, ttl, t) ==
    MapPut(cache, key, [value |-> value, expiresAt |-> t + ttl * MsPerSec])

(* JSON.stringify and JSON.parse of a RateLimitEntry *)

JsonStringify(value) == <<value.key, value.count, value.lastRequest>>
JsonParse(str) == Entry(str[1], str[2], str[3])

(* createSecondaryStorageWrapper *)

SecondaryGet(hasSecondary, cache, key, t) ==
    IF ~hasSecondary THEN [data |-> NoData, store |-> cache]
    ELSE LET got == CacheGetValue(cache, key, t)
         IN  IF ~got.hit THEN [data |-> NoData, store |-> got.store]
             ELSE [data |-> Found(JsonParse(got.value)), store |-> got.store]

(* mutant: the entry is kept although no secondaryStorage is configured *)
SecondarySet_NoGuard(hasSecondary, cache, key, value, t, defaultWindow) ==
    CacheSetValue(cache, key, JsonStringify(value), defaultWindow, t)

SecondarySet(hasSecondary, cache, key, value, t, defaultWindow) ==
    IF ~hasSecondary THEN cache
    ELSE CacheSetValue(cache, key, JsonStringify(value), defaultWindow, t)

(* createDatabaseStorage: the rateLimit table, its key field unique.  The  *)
(* Number() of a bigint lastRequest leaves the values of the model as they *)
(* are.                                                                    *)

DatabaseGet(table, key) ==
    IF key \notin DOMAIN table THEN [data |-> NoData, store |-> table]
    ELSE [data |-> Found(table[key]), store |-> table]

DbUpdateMany(table, key, value) ==
    IF key \notin DOMAIN table THEN table
    ELSE [table EXCEPT ![key].count = value.count,
                       ![key].lastRequest = value.lastRequest]

DbCreateThrows(table, key) == key \in DOMAIN table

DbCreate(table, key, value) ==
    MapPut(table, key, Entry(key, value.count, value.lastRequest))

(* mutant: the insert replaces the record of its key *)
DatabaseSet_Upsert(table, key, value, update, fails) ==
    IF fails THEN table
    ELSE IF update THEN DbUpdateMany(table, key, value)
    ELSE DbCreate(table, key, value)

DatabaseSet(table, key, value, update, fails) ==
    IF fails THEN table
    ELSE IF update THEN DbUpdateMany(table, key, value)
    ELSE IF DbCreateThrows(table, key) THEN table
    ELSE DbCreate(table, key, value)

(* storage.get and storage.set of the configured backend.  fails: the      *)
(* backend's I/O rejects.  threw: the rejection leaves get or set.         *)

StorageGet(c, s, key, t, fails) ==
    CASE c.storage = "memory" ->
            [threw |-> FALSE] @@ MemoryGet(s, key, t)
      [] c.storage = "secondary-storage" ->
            IF fails /\ c.hasSecondary
                THEN [threw |-> TRUE, data |-> NoData, store |-> s]
            ELSE [threw |-> FALSE] @@ SecondaryGet(c.hasSecondary, s, key, t)
      [] c.storage = "database" ->
            IF fails THEN [threw |-> TRUE, data |-> NoData, store |-> s]
            ELSE [threw |-> FALSE] @@ DatabaseGet(s, key)

StorageSet(c, s, key, value, update, t, fails) ==
    CASE c.storage = "memory" ->
            [threw |-> FALSE, store |-> MemorySet(s, key, value, t, c.window)]
      [] c.storage = "secondary-storage" ->
            IF fails /\ c.hasSecondary THEN [threw |-> TRUE, store |-> s]
            ELSE [threw |-> FALSE,
                  store |-> SecondarySet(c.hasSecondary, s, key, value, t, c.window)]
      [] c.storage = "database" ->
            [threw |-> FALSE, store |-> DatabaseSet(s, key, value, update, fails)]

(* The entry physically held for a key, whatever the backend *)
Stored(c, s, key) ==
    IF key \notin DOMAIN s THEN NoData
    ELSE CASE c.storage = "memory" -> Found(s[key].data)
           [] c.storage = "secondary-storage" -> Found(JsonParse(s[key].value))
           [] c.storage = "database" -> Found(s[key])

----------------------------------------------------------------------------
(* shouldRateLimit and getRetryAfter, each with its own Date.now()         *)

CeilDiv(a, b) == -((-a) \div b)

(* the identity a request is accounted to: the user of its session, else  *)
(* its IP, else none                                                       *)
IdentityOf(detection, sess, ip) ==
    IF detection \in {"user", "ip-and-user"} /\ sess.state = "ok"
        THEN <<"user", sess.id>>
    ELSE IF detection = "user" \/ ip = NoIp THEN <<"none", <<>>>>
    ELSE <<"ip", ip>>

(* mutant: the limit is reached one request late *)
shouldRateLimit_OffByOne(max, window, data, now) ==
    LET windowMs == window * MsPerSec
        timeSinceLastRequest == now - data.lastRequest
    IN  timeSinceLastRequest < windowMs /\ data.count > max

shouldRateLimit(max, window, data, now) ==
    LET windowMs == window * MsPerSec
        timeSinceLastRequest == now - data.lastRequest
    IN  timeSinceLastRequest < windowMs /\ data.count >= max

(* mutant: Math.floor for Math.ceil *)
getRetryAfter_Floor(lastRequest, window, now) ==
    LET windowMs == window * MsPerSec
    IN  (lastRequest + windowMs - now) \div MsPerSec

getRetryAfter(lastRequest, window, now) ==
    LET windowMs == window * MsPerSec
    IN  CeilDiv(lastRequest + windowMs - now, MsPerSec)

(* mutant: no clamp *)
Max0_Raw(x) == x

Max0(x) == IF x > 0 THEN x ELSE 0

----------------------------------------------------------------------------
(* CheckRateLimitResponse, with what the handler saw when it built it: the *)
(* request's ip and session, and which of resolveIdentifier, storage.get   *)
(* and storage.set it called                                               *)

NoPrev ==
    [known |-> FALSE, resetAt |-> 0, success |-> FALSE, n |-> 0, ip |-> NoIp]

NoResp ==
    [kind |-> "none", key |-> <<>>, path |-> <<>>, success |-> FALSE,
     limit |-> 0, remaining |-> 0,
     hasRetryAfter |-> FALSE, retryAfter |-> 0,
     hasResetAt |-> FALSE, resetAt |-> 0, hasMessage |-> FALSE,
     window |-> 0, now |-> 0, data |-> NoData, at |-> 0,
     failed |-> FALSE, prev |-> NoPrev, prevId |-> NoPrev,
     ip |-> NoIp, sess |-> NoSession,
     calledResolve |-> FALSE, calledGet |-> FALSE, calledSet |-> FALSE]

(* mutant: the short-circuits report a resetAt too *)
Short_WithResetAt(kind, path, ip, sess, limit, remaining) ==
    [NoResp EXCEPT !.kind = kind, !.path = path, !.success = TRUE,
                   !.limit = limit, !.remaining = remaining,
                   !.ip = ip, !.sess = sess,
                   !.calledResolve = (kind # "disabled"),
                   !.hasResetAt = TRUE]

Short(kind, path, ip, sess, limit, remaining) ==
    [NoResp EXCEPT !.kind = kind, !.path = path, !.success = TRUE,
                   !.limit = limit, !.remaining = remaining,
                   !.ip = ip, !.sess = sess,
                   !.calledResolve = (kind # "disabled")]

Threw(r, calledSet) ==
    [NoResp EXCEPT !.kind = "threw", !.key = r.key, !.path = r.path,
                   !.failed = TRUE, !.ip = r.ip, !.sess = r.sess,
                   !.calledResolve = TRUE, !.calledGet = TRUE,
                   !.calledSet = calledSet]

Rejected(r, now, retryAfter) ==
    [NoResp EXCEPT !.kind = "reject", !.key = r.key, !.path = r.path,
                   !.success = FALSE, !.limit = r.max, !.remaining = 0,
                   !.hasRetryAfter = TRUE, !.retryAfter = retryAfter,
                   !.hasResetAt = TRUE,
                   !.resetAt = r.data.lastRequest + r.window * MsPerSec,
                   !.hasMessage = TRUE, !.window = r.window,
                   !.now = now, !.data = r.data,
                   !.ip = r.ip, !.sess = r.sess,
                   !.calledResolve = TRUE, !.calledGet = TRUE]

Admitted(kind, r, now, remaining, resetAt) ==
    [NoResp EXCEPT !.kind = kind, !.key = r.key, !.path = r.path,
                   !.success = TRUE, !.limit = r.max, !.remaining = remaining,
                   !.hasResetAt = TRUE, !.resetAt = resetAt,
                   !.window = r.window, !.now = now, !.data = r.data,
                   !.ip = r.ip, !.sess = r.sess,
                   !.calledResolve = TRUE, !.calledGet = TRUE,
                   !.calledSet = TRUE]

(* The handler, from the read of the clock to the call of storage.set:     *)
(* now is the handler's Date.now(), t2 the one of shouldRateLimit, t3 the  *)
(* one of getRetryAfter.                                                   *)

Branch(r, now, t2) ==
    IF r.data.present /\ shouldRateLimit(r.max, r.window, r.data, t2) THEN "reject"
    ELSE IF ~r.data.present THEN "create"
    ELSE IF now - r.data.lastRequest > r.window * MsPerSec THEN "reset"
    ELSE "increment"

(* the third argument of storage.set: absent on the create, true on the   *)
(* reset and on the increment                                              *)
(* mutant: every set is an update *)
IsUpdate_Always(branch) == TRUE

IsUpdate(branch) == branch # "create"

(* mutant: a sliding window, every admission restarts it *)
SetValue_Sliding(r, now, branch) ==
    CASE branch = "create" -> Entry(r.key, 1, now)
      [] branch = "reset" -> Entry(r.data.key, 1, now)
      [] branch = "increment" -> Entry(r.data.key, r.data.count + 1, now)
      [] OTHER -> Entry(r.key, 0, 0)

SetValue(r, now, branch) ==
    CASE branch = "create" -> Entry(r.key, 1, now)
      [] branch = "reset" -> Entry(r.data.key, 1, now)
      [] branch = "increment" ->
            Entry(r.data.key, r.data.count + 1, r.data.lastRequest)
      [] OTHER -> Entry(r.key, 0, 0)

Response(r, now, t3, branch) ==
    LET windowMs == r.window * MsPerSec
    IN  CASE branch = "reject" ->
                Rejected(r, now, getRetryAfter(r.data.lastRequest, r.window, t3))
          [] branch = "create" ->
                Admitted("create", r, now, r.max - 1, now + windowMs)
          [] branch = "reset" ->
                Admitted("reset", r, now, r.max - 1, now + windowMs)
          [] branch = "increment" ->
                Admitted("increment", r, now, Max0(r.max - (r.data.count + 1)),
                         r.data.lastRequest + windowMs)

(* What the block leaves in the store: nothing on a rejection; the        *)
(* in-memory set runs synchronously, at its own Date.now() t3; the other   *)
(* backends' set is still in flight when the block ends                    *)
(* mutant: a rejection is counted too *)
StoreAfterDecide_CountsRejects(c, s, r, now, t3, branch) ==
    IF c.storage = "memory"
        THEN StorageSet(c, s, r.key,
                        IF branch = "reject"
                            THEN Entry(r.data.key, r.data.count + 1, r.data.lastRequest)
                            ELSE SetValue(r, now, branch),
                        IsUpdate(branch), t3, FALSE).store
    ELSE s

StoreAfterDecide(c, s, r, now, t3, branch) ==
    IF branch = "reject" THEN s
    ELSE IF c.storage = "memory"
        THEN StorageSet(c, s, r.key, SetValue(r, now, branch),
                        IsUpdate(branch), t3, FALSE).store
    ELSE s

----------------------------------------------------------------------------
(* State *)

Procs == 1..NProcs

IdleReq ==
    [pc |-> "idle", path |-> <<>>, ip |-> NoIp, sess |-> NoSession,
     key |-> <<>>, window |-> 0, max |-> 0, data |-> NoData,
     value |-> Entry(<<>>, 0, 0), update |-> FALSE, pend |-> NoResp]

NoStats ==
    [started |-> 0, admitted |-> 0, racing |-> 0, flagged |-> {},
     errors |-> 0, seen |-> EmptyMap, admittedAt |-> EmptyMap]

(* init of the plugin: the error it logs, and the storage it builds *)
init(c) ==
    [errors |-> IF c.storage = "secondary-storage" /\ ~c.hasSecondary
                    THEN 1 ELSE 0,
     storage |-> c.storage]

Backends == {"memory", "database", "secondary-storage"}
NoEq == [stores |-> [b \in Backends |-> EmptyMap],
         resps |-> [b \in Backends |-> NoResp]]

(* hist: per key, the resetAt of the last response returned for the key,   *)
(* whether it was an admission, how many admissions reported it, and the   *)
(* ip of the last request.  stats.seen: the same per (identity, path), in  *)
(* the runs that keep it.                                                  *)
Cap(n) == IF n > MaxCount + 1 THEN MaxCount + 1 ELSE n

RecordAt(h, k, resp) ==
    IF ~resp.hasResetAt THEN h
    ELSE LET same == k \in DOMAIN h /\ h[k].resetAt = resp.resetAt
             before == IF same THEN h[k].n ELSE 0
         IN  MapPut(h, k,
                    [known |-> TRUE, resetAt |-> resp.resetAt,
                     success |-> resp.success,
                     n |-> Cap(before + (IF resp.success THEN 1 ELSE 0)),
                     ip |-> resp.ip])

Record(h, resp) == RecordAt(h, resp.key, resp)

Prev(h, key) == IF key \in DOMAIN h THEN h[key] ELSE NoPrev

IdKey(resp) == <<IdentityOf(cfg.detection, resp.sess, resp.ip), resp.path>>

Return(resp) ==
    /\ last' = [resp EXCEPT !.at = clock', !.prev = Prev(hist, resp.key),
                            !.prevId = Prev(stats.seen, IdKey(resp))]
    /\ hist' = Record(hist, resp)

InitWith(configs) ==
    /\ cfg \in configs
    /\ clock = 0
    /\ store = EmptyMap
    /\ patternCache = EmptyMap
    /\ req = [p \in Procs |-> IdleReq]
    /\ last = NoResp
    /\ hist = EmptyMap
    /\ stats = [NoStats EXCEPT !.errors = init(cfg).errors]
    /\ eq = NoEq

----------------------------------------------------------------------------
(* Actions *)

(* Date.now() advances *)
Tick(d) ==
    /\ clock + d <= MaxTime
    /\ clock' = clock + d
    /\ UNCHANGED <<cfg, store, patternCache, req, last, hist, stats, eq>>

(* checkRateLimit up to the return of storage.get: the rule, the identity  *)
(* and the read of the entry                                               *)
Request(p, path, ip, sess, getFails) ==
    LET rule == findMatchingRule(path, cfg.customRules, patternCache)
        window == IF rule.found THEN rule.window ELSE cfg.window
        max == IF rule.found THEN rule.max ELSE cfg.max
        identifier == resolveIdentifier(cfg.detection, sess, ip, path)
        key == storageKey(identifier)
        got == StorageGet(cfg, store, key, clock, getFails)
        r == [IdleReq EXCEPT !.pc = "got", !.path = path,
                             !.ip = ip, !.sess = sess,
                             !.key = key, !.window = window,
                             !.max = max, !.data = got.data]
    IN  /\ req[p].pc = "idle"
        /\ patternCache' = CacheAfter(path, cfg.customRules, patternCache)
        /\ clock' = clock
        /\ IF rule.found /\ rule.disabled
               THEN /\ Return(Short("disabled", path, ip, sess, 0, 0))
                    /\ UNCHANGED <<store, req>>
           ELSE IF identifier = NoIdentifier
               THEN /\ Return(Short("noident", path, ip, sess, max, max))
                    /\ UNCHANGED <<store, req>>
           ELSE IF got.threw
               THEN /\ Return(Threw(r, FALSE))
                    /\ UNCHANGED <<store, req>>
           ELSE /\ store' = got.store
                /\ req' = [req EXCEPT ![p] = r]
                /\ UNCHANGED <<last, hist>>
        /\ UNCHANGED <<cfg, eq>>

(* The synchronous block after storage.get: the decision and the call of   *)
(* storage.set.  The in-memory set runs inside it; the other backends'     *)
(* writes land later (Write).                                              *)
Decide(p, d1, d2) ==
    LET r == req[p]
        now == clock
        t2 == now + d1
        t3 == t2 + d2
        branch == Branch(r, now, t2)
        value == SetValue(r, now, branch)
        resp == Response(r, now, t3, branch)
    IN  /\ r.pc = "got"
        /\ t3 <= MaxTime
        /\ value.count <= MaxCount
        /\ clock' = t3
        /\ store' = StoreAfterDecide(cfg, store, r, now, t3, branch)
        /\ IF branch = "reject" \/ cfg.storage = "memory"
               THEN /\ Return(resp)
                    /\ req' = [req EXCEPT ![p] = IdleReq]
           ELSE /\ req' = [req EXCEPT ![p].pc = "writing", ![p].value = value,
                                      ![p].update = IsUpdate(branch),
                                      ![p].pend = resp]
                /\ UNCHANGED <<last, hist>>
        /\ UNCHANGED <<cfg, patternCache, eq>>

(* The awaited storage.set of the database or the secondary storage lands, *)
(* and the handler returns                                                 *)
Write(p, setFails) ==
    LET r == req[p]
        res == StorageSet(cfg, store, r.key, r.value, r.update, clock, setFails)
    IN  /\ r.pc = "writing"
        /\ clock' = clock
        /\ store' = res.store
        /\ Return(IF res.threw THEN Threw(r, TRUE)
                  ELSE [r.pend EXCEPT !.failed = setFails])
        /\ req' = [req EXCEPT ![p] = IdleReq]
        /\ UNCHANGED <<cfg, patternCache, eq>>

Quiescent == \A q \in Procs : req[q].pc = "idle"

----------------------------------------------------------------------------
(* Sequential runs: one request at a time, no storage failure *)

SeqConfigs ==
    {[storage |-> b, hasSecondary |-> TRUE, window |-> 1, max |-> 2,
      detection |-> "ip",
      customRules |-> <<[pattern |-> PatB, rule |-> Rule(2, 1)]>>] :
        b \in {"memory", "database", "secondary-storage"}}

SeqPaths == {PathA, PathBX}

SeqRequest(path) ==
    /\ Quiescent
    /\ Request(1, path, Ip1, NoSession, FALSE)
    /\ UNCHANGED stats

SeqDecide(d1, d2) == Decide(1, d1, d2) /\ UNCHANGED stats

SeqWrite == Write(1, FALSE) /\ UNCHANGED stats

Next ==
    \/ \E d \in TickSteps : Tick(d)
    \/ \E path \in SeqPaths : SeqRequest(path)
    \/ \E d1, d2 \in Drift : SeqDecide(d1, d2)
    \/ SeqWrite

Spec == InitWith(SeqConfigs) /\ [][Next]_vars

----------------------------------------------------------------------------
(* Claims about sequential runs.  After a response and until the next      *)
(* request starts, the store is as the responding call left it.            *)

Accounted == last.kind \in {"reject", "create", "reset", "increment"}
WindowMsOf(resp) == resp.window * MsPerSec
Settled == Quiescent /\ Accounted
StoredNow == Stored(cfg, store, last.key)
(* admissions that reported this response's resetAt, this one included *)
Ordinal ==
    (IF last.prev.known /\ last.prev.resetAt = last.resetAt THEN last.prev.n ELSE 0)
        + (IF last.success THEN 1 ELSE 0)
(* the whole call ran inside the window it reports *)
InsideWindow == last.at < last.resetAt

(* C1: in one live window the k-th call (k = 1..N) is admitted and reports *)
(* remaining = N - k, and a call after N admissions is rejected with       *)
(* remaining = 0; a live entry with count = N is a reject.                 *)
C1_MonotonicConsumption ==
    (Accounted /\ InsideWindow) =>
        /\ IF last.success
               THEN Ordinal <= last.limit /\ last.remaining = last.limit - Ordinal
               ELSE Ordinal = last.limit /\ last.remaining = 0
        /\ (last.data.present /\ last.data.count >= last.limit
                /\ last.at < last.data.lastRequest + WindowMsOf(last))
              => ~last.success

C1_Witness ==
    /\ last.kind = "reject" /\ InsideWindow
    /\ last.limit = 2 /\ Ordinal = 2

(* C2: the count is incremented only by a request observed while           *)
(* now - windowStart < windowMs, and every request observed with           *)
(* now - windowStart >= windowMs leaves count = 1 and windowStart = now.   *)
C2_WindowBoundary ==
    (Settled /\ last.data.present) =>
        /\ last.kind = "increment" =>
                last.now - last.data.lastRequest < WindowMsOf(last)
        /\ last.now - last.data.lastRequest >= WindowMsOf(last) =>
                /\ StoredNow.present
                /\ StoredNow.count = 1
                /\ StoredNow.lastRequest = last.now

(* C3: an admission inside a stored window writes back count + 1 and the   *)
(* same windowStart, and every response reports resetAt = the stored       *)
(* windowStart + windowMs.                                                 *)
C3_FixedWindow ==
    Settled =>
        /\ StoredNow.present
        /\ last.resetAt = StoredNow.lastRequest + WindowMsOf(last)
        /\ last.kind \in {"reject", "increment"} =>
                StoredNow.lastRequest = last.data.lastRequest
        /\ last.kind = "increment" => StoredNow.count = last.data.count + 1

C3_Witness ==
    /\ Settled /\ last.kind = "increment"
    /\ last.now >= last.data.lastRequest + 500
    /\ last.prev.known /\ last.prev.resetAt = last.resetAt

(* C4: once a key's window has elapsed, the next request is admitted       *)
(* whatever the count, the entry becomes count = 1 with windowStart = now, *)
(* and the response reports remaining = max - 1, resetAt = now + windowMs. *)
C4_WindowReset ==
    (Settled /\ last.data.present
        /\ last.now - last.data.lastRequest >= WindowMsOf(last)) =>
        /\ last.success
        /\ last.remaining = last.limit - 1
        /\ last.resetAt = last.now + WindowMsOf(last)
        /\ StoredNow = Found(Entry(last.key, 1, last.now))

(* C6: a rejected call issues no set: the step that returns the rejection  *)
(* leaves the store as it was, and so did the read that fed it.            *)
C6_RejectKeepsStore ==
    [][\A p \in Procs :
        /\ (req[p].pc = "got" /\ req'[p].pc = "idle" /\ last'.kind = "reject")
                => store' = store
        /\ (req[p].pc = "idle" /\ req'[p].pc = "got" /\ req'[p].data.present)
                => store' = store]_vars

C6_Witness ==
    /\ last.kind = "reject"
    /\ last.prev.known /\ ~last.prev.success

(* C7: a rejection returned at time t with resetAt R and retryAfter A has  *)
(* R <= t + A * 1000, and the next request for the key observed at or      *)
(* after R is admitted.                                                    *)
C7_RejectionHonoured ==
    /\ last.kind = "reject" =>
            last.resetAt <= last.at + last.retryAfter * MsPerSec
    /\ (Accounted /\ last.prev.known /\ ~last.prev.success
            /\ last.now >= last.prev.resetAt) => last.success

C7_Witness ==
    /\ Accounted /\ last.success
    /\ last.prev.known /\ ~last.prev.success
    /\ last.now >= last.prev.resetAt

----------------------------------------------------------------------------
(* Several keys: different IPs, different users, a user and an IP, and two *)
(* paths under one wildcard rule                                           *)

IndepConfigs ==
    {[storage |-> b, hasSecondary |-> TRUE, window |-> 1, max |-> 1,
      detection |-> "ip-and-user",
      customRules |-> <<[pattern |-> PatB, rule |-> Rule(1, 1)]>>] :
        b \in Backends}

In(ip, sess, path) == [ip |-> ip, sess |-> sess, path |-> path]

IndepInputs ==
    {In(Ip1, NoSession, PathBX), In(Ip2, NoSession, PathBX),
     In(Ip1, SessionOf(User1), PathBX), In(Ip2, SessionOf(User2), PathBX),
     In(Ip1, NoSession, PathBY)}

KeyOf(i) == storageKey(resolveIdentifier(cfg.detection, i.sess, i.ip, i.path))

IndepRequest(i) ==
    /\ Quiescent
    /\ KeyOf(i) \in DOMAIN store \/ Cardinality(DOMAIN store) < MaxKeys
    /\ Request(1, i.path, i.ip, i.sess, FALSE)
    /\ UNCHANGED stats

IndepTick == clock + 500 <= MaxIndepTime /\ Tick(500)

NextIndep ==
    \/ IndepTick
    \/ \E i \in IndepInputs : IndepRequest(i)
    \/ SeqDecide(0, 0)
    \/ SeqWrite

SpecIndep == InitWith(IndepConfigs) /\ [][NextIndep]_vars

SameEntry(s, t, k) ==
    /\ (k \in DOMAIN s) = (k \in DOMAIN t)
    /\ k \in DOMAIN s => s[k] = t[k]

Differs(a, b) ==
    \/ IdentityOf(cfg.detection, a.sess, a.ip) # IdentityOf(cfg.detection, b.sess, b.ip)
    \/ a.path # b.path

(* C5: a step of a request for (identity, path) A leaves the entry of      *)
(* every B that differs from A in identity or in path as it was, and no    *)
(* step outside a request changes the store.                               *)
C5_Independence ==
    [][/\ \A p \in Procs :
            req'[p] # req[p] =>
                LET a == IF req[p].pc = "idle" THEN req'[p] ELSE req[p]
                IN  \A b \in IndepInputs :
                        Differs(a, b) => SameEntry(store, store', KeyOf(b))
       /\ (\A p \in Procs : req'[p] = req[p]) => store' = store]_vars

C5_Witness ==
    /\ last.kind = "reject"
    /\ \E k \in DOMAIN hist \ {last.key} :
            hist[k].success /\ k \in DOMAIN store

----------------------------------------------------------------------------
(* Concurrent runs: the requests of one key interleave at their awaits *)

ConcConfigs ==
    {[storage |-> b, hasSecondary |-> TRUE, window |-> 1, max |-> 2,
      detection |-> "ip", customRules |-> <<>>] : b \in Backends}

InFlight(p) == req[p].pc # "idle"

Started(p) ==
    LET others == {q \in Procs \ {p} : InFlight(q)}
        racers == IF others = {} THEN {} ELSE others \cup {p}
    IN  [stats EXCEPT !.started = @ + 1,
                      !.racing = @ + Cardinality(racers \ stats.flagged),
                      !.flagged = @ \cup racers]

Finished(p) ==
    IF req'[p].pc # "idle" THEN stats
    ELSE [stats EXCEPT !.admitted = @ + (IF last'.success THEN 1 ELSE 0),
                       !.flagged = @ \ {p}]

ConcRequest(p) ==
    /\ stats.started < MaxRequests
    /\ Request(p, PathA, Ip1, NoSession, FALSE)
    /\ stats' = Started(p)

ConcDecide(p, d1, d2) == Decide(p, d1, d2) /\ stats' = Finished(p)

ConcWrite(p) == Write(p, FALSE) /\ stats' = Finished(p)

ConcTick == clock + 500 <= MaxConcTime /\ Tick(500)

NextConc ==
    \/ ConcTick
    \/ \E p \in Procs : ConcRequest(p)
    \/ \E p \in Procs : ConcDecide(p, 0, 0)
    \/ \E p \in Procs : ConcWrite(p)

SpecConc == InitWith(ConcConfigs) /\ [][NextConc]_vars

----------------------------------------------------------------------------
(* The three backends side by side: every request is served, at the same   *)
(* instant, by three limiters that differ in the backend only              *)

EqConfigs ==
    {[storage |-> "memory", hasSecondary |-> TRUE, window |-> 1, max |-> 2,
      detection |-> "ip", customRules |-> <<>>]}

EqServe(b, path, ip, sess) ==
    LET c == [cfg EXCEPT !.storage = b]
        rule == findMatchingRule(path, c.customRules, patternCache)
        key == storageKey(resolveIdentifier(c.detection, sess, ip, path))
        got == StorageGet(c, eq.stores[b], key, clock, FALSE)
        r == [IdleReq EXCEPT !.pc = "got", !.path = path, !.key = key,
                             !.window = IF rule.found THEN rule.window ELSE c.window,
                             !.max = IF rule.found THEN rule.max ELSE c.max,
                             !.data = got.data]
        branch == Branch(r, clock, clock)
        value == SetValue(r, clock, branch)
    IN  [resp |-> Response(r, clock, clock, branch),
         count |-> value.count,
         store |-> IF branch = "reject" THEN got.store
                   ELSE StorageSet(c, got.store, key, value,
                                   IsUpdate(branch), clock, FALSE).store]

EqRequest(path) ==
    LET out == [b \in Backends |-> EqServe(b, path, Ip1, NoSession)]
    IN  /\ \A b \in Backends : out[b].count <= MaxCount
        /\ eq' = [stores |-> [b \in Backends |-> out[b].store],
                  resps |-> [b \in Backends |-> out[b].resp]]
        /\ UNCHANGED <<cfg, clock, store, patternCache, req, last, hist, stats>>

NextEquiv ==
    \/ \E d \in TickSteps : Tick(d)
    \/ EqRequest(PathA)

SpecEquiv == InitWith(EqConfigs) /\ [][NextEquiv]_vars

Outcome(resp) == <<resp.success, resp.limit, resp.remaining>>

(* C9: the memory, database and secondary-storage backends answer every    *)
(* sequential request sequence with the same (success, limit, remaining).  *)
C9_BackendEquivalence ==
    \A b1, b2 \in Backends : Outcome(eq.resps[b1]) = Outcome(eq.resps[b2])

----------------------------------------------------------------------------
(* Sequential runs in which the I/O of the backend may fail *)

FailConfigs ==
    {[storage |-> b, hasSecondary |-> TRUE, window |-> 1, max |-> 2,
      detection |-> "ip", customRules |-> <<>>] :
        b \in {"database", "secondary-storage"}}

FailRequest(getFails) ==
    /\ Quiescent
    /\ Request(1, PathA, Ip1, NoSession, getFails)
    /\ UNCHANGED stats

FailDecide(d1, d2) == Decide(1, d1, d2) /\ UNCHANGED stats

FailWrite(setFails) == Write(1, setFails) /\ UNCHANGED stats

NextFail ==
    \/ \E d \in TickSteps : Tick(d)
    \/ \E f \in BOOLEAN : FailRequest(f)
    \/ \E d1, d2 \in Drift : FailDecide(d1, d2)
    \/ \E f \in BOOLEAN : FailWrite(f)

SpecFail == InitWith(FailConfigs) /\ [][NextFail]_vars

(* C10: a call during which a read or a write of the backend failed still  *)
(* returns a normal response with success = true; nothing is thrown.       *)
C10_FailOpen ==
    last.failed => (last.kind # "threw" /\ last.success)

----------------------------------------------------------------------------
(* storage: "secondary-storage" with no secondaryStorage in the auth       *)
(* options                                                                 *)

MisconfConfigs ==
    {[storage |-> "secondary-storage", hasSecondary |-> FALSE,
      window |-> 1, max |-> 2, detection |-> "ip",
      customRules |-> <<[pattern |-> PatB, rule |-> Rule(2, 1)]>>]}

MisconfRequest(path, getFails) ==
    /\ Quiescent
    /\ Request(1, path, Ip1, NoSession, getFails)
    /\ UNCHANGED stats

NextMisconf ==
    \/ IndepTick
    \/ \E path \in SeqPaths, f \in BOOLEAN : MisconfRequest(path, f)
    \/ FailDecide(0, 0)
    \/ \E f \in BOOLEAN : FailWrite(f)

SpecMisconf == InitWith(MisconfConfigs) /\ [][NextMisconf]_vars

(* C11: with storage "secondary-storage" and no secondaryStorage, init     *)
(* logs one error and goes on, the store stays empty, and every call that  *)
(* reaches the accounting is admitted with remaining = max - 1, whatever   *)
(* came before.                                                            *)
C11_MisconfigFailsOpen ==
    /\ stats.errors = 1
    /\ store = EmptyMap
    /\ \A p \in Procs : ~req[p].data.present
    /\ last.kind # "none" =>
            /\ last.kind = "create"
            /\ last.success
            /\ last.limit = (IF last.path = PathA THEN 2 ELSE 1)
            /\ last.remaining = last.limit - 1

C11_Witness ==
    /\ last.kind = "create"
    /\ last.prev.known /\ last.prev.resetAt > last.at
    /\ last.prev.n > last.limit

----------------------------------------------------------------------------
(* Sequential runs over the detection modes: requests with and without an  *)
(* IP, with a session, without one and with a session lookup that throws,  *)
(* on a default path, a path under a wildcard rule and a disabled path     *)

MaxIdentTime == 1500

IdentConfigs ==
    {[storage |-> b, hasSecondary |-> TRUE, window |-> 1, max |-> 1,
      detection |-> d,
      customRules |-> <<[pattern |-> PathH, rule |-> RuleOff],
                        [pattern |-> PatB, rule |-> Rule(1, 2)]>>] :
        b \in Backends, d \in {"ip", "user", "ip-and-user"}}

IdentInputs ==
    {In(Ip1, NoSession, PathA), In(Ip1, SessionThrows, PathA),
     In(Ip1, SessionOf(User1), PathA), In(Ip2, SessionOf(User1), PathA),
     In(NoIp, NoSession, PathA), In(NoIp, SessionThrows, PathBX),
     In(Ip1, SessionThrows, PathH)}

(* the response of this step, if it returns one, enters stats.seen *)
Seen ==
    IF req'[1].pc = "idle"
        THEN [stats EXCEPT !.seen = RecordAt(@, IdKey(last'), last')]
    ELSE stats

IdentRequest(i) ==
    /\ Quiescent
    /\ Request(1, i.path, i.ip, i.sess, FALSE)
    /\ stats' = Seen

IdentDecide == Decide(1, 0, 0) /\ stats' = Seen

IdentWrite == Write(1, FALSE) /\ stats' = Seen

IdentTick == clock + 500 <= MaxIdentTime /\ Tick(500)

NextIdent ==
    \/ IdentTick
    \/ \E i \in IdentInputs : IdentRequest(i)
    \/ IdentDecide
    \/ IdentWrite

SpecIdent == InitWith(IdentConfigs) /\ [][NextIdent]_vars

(* The rule the configuration declares for a path: the value of the first  *)
(* declared pattern that matches it, else the default {window, max}        *)
DeclaredRule(path) ==
    LET hits == {i \in 1..Len(cfg.customRules) :
                    matchPath(cfg.customRules[i].pattern, path, EmptyMap)}
    IN  IF hits = {} THEN Rule(cfg.window, cfg.max)
        ELSE cfg.customRules[CHOOSE i \in hits : \A j \in hits : i <= j].rule

Responded == last.kind # "none"

EndsWith(str, suffix) ==
    /\ Len(str) >= Len(suffix)
    /\ SubSeq(str, Len(str) - Len(suffix) + 1, Len(str)) = suffix

NoOptionalFields(resp) ==
    ~resp.hasRetryAfter /\ ~resp.hasResetAt /\ ~resp.hasMessage

(* C12: a request for a path whose rule is false is answered with exactly  *)
(* {success: true, limit: 0, remaining: 0}, without resolveIdentifier,     *)
(* storage.get or storage.set, and no entry is ever stored or accounted    *)
(* for such a path.                                                        *)
C12_Disabled ==
    /\ (Responded /\ DeclaredRule(last.path).disabled) =>
            /\ last.kind = "disabled"
            /\ last.success /\ last.limit = 0 /\ last.remaining = 0
            /\ NoOptionalFields(last)
            /\ ~last.calledResolve /\ ~last.calledGet /\ ~last.calledSet
    /\ \A i \in IdentInputs :
            DeclaredRule(i.path).disabled =>
                \A k \in DOMAIN store \cup DOMAIN hist : ~EndsWith(k, i.path)
    /\ \A p \in Procs : ~DeclaredRule(req[p].path).disabled

C12_Witness ==
    /\ last.kind = "disabled" /\ last.prev = NoPrev
    /\ last.path = PathH /\ last.ip = Ip1
    /\ \E k \in DOMAIN store : Stored(cfg, store, k).count >= 2

(* C13: a request with no identity (mode "user" without a session, or no   *)
(* IP and no session in the other modes) on a path that is not disabled is *)
(* admitted with limit = remaining = the rule's max and nothing else,      *)
(* without storage.get or storage.set, each time the same.                 *)
NoIdentity(resp) ==
    \/ cfg.detection = "user" /\ resp.sess.state # "ok"
    \/ /\ cfg.detection \in {"ip", "ip-and-user"}
       /\ resp.ip = NoIp /\ resp.sess.state # "ok"

C13_NoIdentityBypass ==
    (Responded /\ ~DeclaredRule(last.path).disabled /\ NoIdentity(last)) =>
        /\ last.kind = "noident"
        /\ last.success
        /\ last.limit = DeclaredRule(last.path).max
        /\ last.remaining = DeclaredRule(last.path).max
        /\ NoOptionalFields(last)
        /\ ~last.calledGet /\ ~last.calledSet
        /\ last.prev = NoPrev /\ last.prevId = NoPrev

C13_Witness ==
    /\ last.kind = "noident" /\ last.path = PathBX /\ last.limit = 2
    /\ cfg.detection = "ip-and-user" /\ last.sess = SessionThrows
    /\ store # EmptyMap

(* The counter of an identity on a path, whatever key it is stored under:  *)
(* an identity not seen before is admitted on a fresh entry, an identity   *)
(* that used up its window is rejected, and only such a one is.            *)
CountedPerIdentity ==
    LET before == last.prevId
        usedUp == before.known /\ before.n >= last.limit
    IN  /\ ~before.known => last.kind = "create"
        /\ (usedUp /\ last.at < before.resetAt) => ~last.success
        /\ ~last.success => (usedUp /\ before.resetAt = last.resetAt)

UserKey(resp) == RlPrefix \o UserPrefix \o resp.sess.id \o Sep \o resp.path
IpKey(resp) == RlPrefix \o resp.ip \o Sep \o resp.path

(* C14: in mode "ip-and-user" a request with a session is counted under    *)
(* its user, from whatever IP it comes, a request without one under its    *)
(* IP, and the two counters are distinct: each is exhausted by its own     *)
(* requests only.                                                          *)
C14_IpAndUser ==
    (cfg.detection = "ip-and-user" /\ Responded
        /\ ~DeclaredRule(last.path).disabled) =>
        /\ last.sess.state = "ok" => (Accounted /\ last.key = UserKey(last))
        /\ (last.sess.state # "ok" /\ last.ip # NoIp) =>
                (Accounted /\ last.key = IpKey(last))
        /\ (last.sess.state # "ok" /\ last.ip = NoIp) => last.kind = "noident"
        /\ Accounted => CountedPerIdentity

C14_Witness ==
    /\ cfg.detection = "ip-and-user"
    /\ last.kind = "reject" /\ last.sess.state = "ok"
    /\ last.prevId.ip # last.ip
    /\ \E k \in DOMAIN hist \ {last.key} :
            hist[k].success /\ hist[k].resetAt > last.at

(* what a request whose session lookup threw is answered *)
C15_State ==
    (Responded /\ last.sess = SessionThrows
        /\ ~DeclaredRule(last.path).disabled) =>
        /\ last.kind # "threw"
        /\ cfg.detection = "user" =>
                /\ last.kind = "noident"
                /\ last.success /\ last.remaining = last.limit
        /\ (cfg.detection = "ip-and-user" /\ last.ip = NoIp) =>
                last.kind = "noident"
        /\ (cfg.detection \in {"ip", "ip-and-user"} /\ last.ip # NoIp) =>
                /\ Accounted
                /\ last.key = IpKey(last)
                /\ CountedPerIdentity

(* what the steps of such a request leave alone *)
C15_Step ==
    \A p \in Procs :
        req'[p] # req[p] =>
            LET a == IF req[p].pc = "idle" THEN req'[p] ELSE req[p]
            IN  a.sess = SessionThrows =>
                    \A k \in (DOMAIN store \cup DOMAIN store') \ {IpKey(a)} :
                        SameEntry(store, store', k)

(* C15: a session lookup that throws counts as no session: in mode "user"  *)
(* the request is admitted unaccounted, in mode "ip-and-user" it is        *)
(* counted under its IP together with the requests that have no session,   *)
(* nothing is thrown, and its steps change no entry but the IP key's.      *)
C15_SessionFailure == []C15_State /\ [][C15_Step]_vars

C15_Witness ==
    /\ cfg.detection = "ip-and-user"
    /\ last.kind = "reject" /\ last.sess = SessionThrows
    /\ last.prevId.n >= 1
    /\ \E k \in DOMAIN store : k # last.key

(* C19: a response carries retryAfter and message exactly when success is  *)
(* false, and resetAt exactly when storage.get was called, that is unless  *)
(* the path is disabled or the request has no identity.                    *)
C19_ResponseShape ==
    (Responded /\ last.kind # "threw") =>
        /\ last.hasRetryAfter = ~last.success
        /\ last.hasMessage = ~last.success
        /\ last.hasResetAt = last.calledGet
        /\ ~last.hasResetAt =
                \/ DeclaredRule(last.path).disabled
                \/ IdentityOf(cfg.detection, last.sess, last.ip)[1] = "none"

C19_Witness ==
    /\ last.kind = "reject"
    /\ last.hasRetryAfter /\ last.hasMessage /\ last.hasResetAt
    /\ last.sess.state = "ok"

----------------------------------------------------------------------------
(* Rule tables with more than one pattern that matches a path, in both     *)
(* orders of declaration                                                   *)

RuleTables ==
    {<<[pattern |-> PatB, rule |-> Rule(1, 1)],
       [pattern |-> PathBX, rule |-> Rule(1, 2)]>>,
     <<[pattern |-> PathBX, rule |-> Rule(1, 2)],
       [pattern |-> PatB, rule |-> Rule(1, 1)]>>,
     <<[pattern |-> PatB, rule |-> RuleOff],
       [pattern |-> PathBX, rule |-> Rule(1, 2)]>>,
     <<[pattern |-> PatAi, rule |-> Rule(60, 10)],
       [pattern |-> PathGenerate, rule |-> Rule(3600, 5)]>>,
     <<[pattern |-> PatStar, rule |-> Rule(1, 1)],
       [pattern |-> Path7, rule |-> Rule(1, 2)]>>}

RulesConfigs ==
    {[storage |-> "memory", hasSecondary |-> TRUE, window |-> 1, max |-> 3,
      detection |-> "ip", customRules |-> t] : t \in RuleTables}

RulesPaths == {PathA, PathBX, PathGenerate, Path7}

RulesRequest(path) ==
    /\ Quiescent
    /\ KeyOf(In(Ip1, NoSession, path)) \in DOMAIN store
            \/ Cardinality(DOMAIN store) < MaxKeys
    /\ Request(1, path, Ip1, NoSession, FALSE)
    /\ UNCHANGED stats

NextRules ==
    \/ IndepTick
    \/ \E path \in RulesPaths : RulesRequest(path)
    \/ SeqDecide(0, 0)

SpecRules == InitWith(RulesConfigs) /\ [][NextRules]_vars

(* C16: the rule that governs a response is the one the table declares for *)
(* the path: the first declared pattern that matches, else the default;    *)
(* the response is the disabled one exactly when that rule is false, and   *)
(* otherwise reports its max as limit and runs on its window.              *)
C16_FirstMatchWins ==
    Responded =>
        LET governing == DeclaredRule(last.path)
        IN  /\ (last.kind = "disabled") = governing.disabled
            /\ ~governing.disabled =>
                    /\ last.limit = governing.max
                    /\ last.window = governing.window

(* C17: with "/api/ai/*": {window: 60, max: 10} declared before            *)
(* "/api/ai/generate": {window: 3600, max: 5}, a request for               *)
(* /api/ai/generate reports limit = 5 and runs on the 3600 s window.       *)
C17_SpecificOverridesWildcard ==
    (Responded /\ last.path = PathGenerate
        /\ cfg.customRules =
                <<[pattern |-> PatAi, rule |-> Rule(60, 10)],
                  [pattern |-> PathGenerate, rule |-> Rule(3600, 5)]>>) =>
        /\ last.limit = 5
        /\ last.window = 3600

----------------------------------------------------------------------------
(* Key derivation: requests in flight side by side, their identities and   *)
(* paths drawn from strings with and without the separator                 *)

KeysConfigs ==
    {[storage |-> "memory", hasSecondary |-> TRUE, window |-> 1, max |-> 2,
      detection |-> "ip-and-user", customRules |-> <<>>]}

KeysInputs ==
    {In(Ip1, sess, path) :
        sess \in {NoSession, SessionOf(User1), SessionOf(UserBar)},
        path \in {PathY, PathXY}}

KeysRequest(p, i) ==
    /\ stats.started < MaxKeys
    /\ Request(p, i.path, i.ip, i.sess, FALSE)
    /\ stats' = [stats EXCEPT !.started = @ + 1]

KeysDecide(p) == Decide(p, 0, 0) /\ UNCHANGED stats

NextKeys ==
    \/ \E p \in Procs, i \in KeysInputs : KeysRequest(p, i)
    \/ \E p \in Procs : KeysDecide(p)

SpecKeys == InitWith(KeysConfigs) /\ [][NextKeys]_vars

(* C18: two requests are given the same storage key only if they have the  *)
(* same identity (the same user, or the same IP and no user) and the same  *)
(* path.                                                                   *)
C18_KeyInjective ==
    \A p, q \in Procs :
        (req[p].pc = "got" /\ req[q].pc = "got" /\ req[p].key = req[q].key) =>
            /\ IdentityOf(cfg.detection, req[p].sess, req[p].ip)
                    = IdentityOf(cfg.detection, req[q].sess, req[q].ip)
            /\ req[p].path = req[q].path

----------------------------------------------------------------------------
(* C20: a rejection reports retryAfter = ceil((windowStart + windowMs -     *)
(* now) / 1000) for the handler's now, a whole number of seconds from 1 to *)
(* the rule's window, also when the clock advances between the handler's   *)
(* now, shouldRateLimit's and getRetryAfter's.                             *)
C20_RetryAfterRange ==
    last.kind = "reject" =>
        /\ last.retryAfter =
                CeilDiv(last.data.lastRequest + WindowMsOf(last) - last.now,
                        MsPerSec)
        /\ 1 <= last.retryAfter
        /\ last.retryAfter <= last.window

----------------------------------------------------------------------------
(* The pattern matcher on every pattern and path over a small alphabet: a  *)
(* table with one pattern, and requests without identity, whose limit      *)
(* tells whether the pattern matched.  Each path is asked for twice: with  *)
(* the pattern not yet compiled, and with its regex in the cache.          *)

MaxPatLen == 3
MaxPathLen == 3
MaxRepeats == 2

Alphabet == {"/", "a", ".", "*", "\n"}

StringsUpTo(n) == UNION {[1..k -> Alphabet] : k \in 0..n}

MatchConfigs ==
    {[storage |-> "memory", hasSecondary |-> TRUE, window |-> 1, max |-> 1,
      detection |-> "user",
      customRules |-> <<[pattern |-> pat, rule |-> Rule(1, 2)]>>] :
        pat \in StringsUpTo(MaxPatLen)}

MatchRequest(path) ==
    /\ stats.started < MaxRepeats
    /\ last.kind = "none" \/ last.path = path
    /\ Request(1, path, NoIp, NoSession, FALSE)
    /\ stats' = [stats EXCEPT !.started = @ + 1]

NextMatch == \E path \in StringsUpTo(MaxPathLen) : MatchRequest(path)

SpecMatch == InitWith(MatchConfigs) /\ [][NextMatch]_vars

(* The reference matcher: "**" stands for any run of characters, "*" for   *)
(* any run without "/", every other character for itself.                  *)
RECURSIVE RefMatch(_, _)
RefMatch(pattern, path) ==
    LET Rest(k) == SubSeq(path, k + 1, Len(path))
    IN  IF pattern = <<>> THEN path = <<>>
        ELSE IF Len(pattern) >= 2 /\ pattern[1] = "*" /\ pattern[2] = "*"
            THEN \E k \in 0..Len(path) :
                    RefMatch(SubSeq(pattern, 3, Len(pattern)), Rest(k))
        ELSE IF pattern[1] = "*"
            THEN \E k \in 0..Len(path) :
                    /\ \A i \in 1..k : path[i] # "/"
                    /\ RefMatch(Tail(pattern), Rest(k))
        ELSE /\ path # <<>>
             /\ path[1] = pattern[1]
             /\ RefMatch(Tail(pattern), Tail(path))

(* C21: the rule of a pattern governs a path exactly when the reference    *)
(* matcher accepts the pair, whether the pattern's regex is compiled by    *)
(* this call or taken from the cache.                                      *)
C21_MatchesReference ==
    Responded =>
        (last.limit = 2) = RefMatch(cfg.customRules[1].pattern, last.path)

----------------------------------------------------------------------------
(* C22: with the memory backend, the set of an admitted request stamps the *)
(* entry with expiresAt = the time of the write + defaultWindow * 1000,    *)
(* whatever the window of the rule, and a get at a time >= expiresAt       *)
(* reports the entry absent and removes it, while an earlier get returns   *)
(* it and removes nothing.                                                 *)
C22_MemoryExpiry ==
    [][cfg.storage = "memory" =>
        \A p \in Procs :
            /\ (req[p].pc = "idle" /\ req'[p].pc = "got") =>
                    LET k == req'[p].key
                    IN  IF k \in DOMAIN store /\ clock < store[k].expiresAt
                            THEN /\ req'[p].data = Found(store[k].data)
                                 /\ store' = store
                        ELSE /\ ~req'[p].data.present
                             /\ store' = MapDel(store, k)
            /\ (req[p].pc = "got" /\ req'[p].pc = "idle" /\ last'.success) =>
                    LET k == req[p].key
                    IN  /\ k \in DOMAIN store'
                        /\ store'[k].expiresAt = clock' + cfg.window * MsPerSec
                        /\ \A j \in DOMAIN store \ {k} : SameEntry(store, store', j)]_vars

C22_Witness ==
    /\ cfg.storage = "memory"
    /\ req[1].pc = "got" /\ ~req[1].data.present
    /\ req[1].path = PathBX
    /\ req[1].key \in DOMAIN hist /\ hist[req[1].key].resetAt > clock
    /\ req[1].key \notin DOMAIN store

----------------------------------------------------------------------------
(* Expiry against the rule's window: one key on a path whose rule has a    *)
(* window longer than, equal to or shorter than the default window, on the *)
(* two backends that expire entries.  The clock advances between requests  *)
(* and between the clock reads of a request.                               *)

ExpiryConfigs ==
    {[storage |-> b, hasSecondary |-> TRUE, window |-> w[1], max |-> 2,
      detection |-> "ip",
      customRules |-> <<[pattern |-> PatB, rule |-> Rule(w[2], 1)]>>] :
        b \in {"memory", "secondary-storage"},
        w \in {<<1, 2>>, <<1, 1>>, <<2, 1>>}}

(* stats.admittedAt: per key, when the last admitted request returned, its *)
(* write done                                                              *)
AdmittedAt ==
    IF req'[1].pc = "idle" /\ last'.success
        THEN [stats EXCEPT !.admittedAt = MapPut(@, last'.key, last'.at)]
    ELSE stats

ExpiryTick(d) == Quiescent /\ Tick(d)

ExpiryRequest ==
    /\ Quiescent
    /\ Request(1, PathBX, Ip1, NoSession, FALSE)
    /\ UNCHANGED stats

ExpiryDecide(d1, d2) == Decide(1, d1, d2) /\ stats' = AdmittedAt

ExpiryWrite == Write(1, FALSE) /\ stats' = AdmittedAt

NextExpiry ==
    \/ \E d \in TickSteps : ExpiryTick(d)
    \/ ExpiryRequest
    \/ \E d1, d2 \in Drift : ExpiryDecide(d1, d2)
    \/ ExpiryWrite

SpecExpiry == InitWith(ExpiryConfigs) /\ [][NextExpiry]_vars

(* C23: on the memory and secondary-storage backends, under a rule whose   *)
(* window exceeds the default window, a request observed defaultWindow     *)
(* seconds or more after the last admitted one is admitted on a fresh      *)
(* entry (count = 1, windowStart = now), whatever is left of the rule's    *)
(* window; under a rule whose window is at most the default window, a key  *)
(* that used up its window is rejected until that window has elapsed.      *)
C23_PrematureReset ==
    [][(req[1].pc # "idle" /\ req'[1].pc = "idle") =>
        LET r == last'
            k == r.key
            defaultMs == cfg.window * MsPerSec
        IN  /\ (r.window > cfg.window /\ k \in DOMAIN stats.admittedAt
                    /\ r.now >= stats.admittedAt[k] + defaultMs) =>
                    /\ r.kind = "create"
                    /\ r.remaining = r.limit - 1
                    /\ Stored(cfg, store', k) = Found(Entry(k, 1, r.now))
            /\ (r.window <= cfg.window /\ r.prev.known
                    /\ r.prev.n >= r.limit /\ r.at < r.prev.resetAt) =>
                    ~r.success]_vars

C23_Witness ==
    /\ last.kind = "create" /\ last.window > cfg.window
    /\ last.prev.known /\ last.prev.n >= last.limit
    /\ last.now = last.prev.resetAt - WindowMsOf(last) + cfg.window * MsPerSec
    /\ last.at < last.prev.resetAt

----------------------------------------------------------------------------
(* C24: the set in flight carries update = false exactly when the get of   *)
(* its request returned null and update = true exactly when it returned an *)
(* entry; on the database, in sequential runs, an insert meets no record   *)
(* of its key and an update meets one.                                     *)
C24_CreateUpdateProtocol ==
    \A p \in Procs :
        req[p].pc = "writing" =>
            /\ req[p].update = req[p].data.present
            /\ cfg.storage = "database" =>
                    /\ req[p].update = (req[p].key \in DOMAIN store)
                    /\ ~req[p].update => ~DbCreateThrows(store, req[p].key)

C24_Witness ==
    /\ cfg.storage = "database"
    /\ req[1].pc = "writing" /\ req[1].update
    /\ req[1].value.count = 1
    /\ hist[req[1].key].n >= 2

----------------------------------------------------------------------------
(* Concurrent runs on the database in which create and updateMany may      *)
(* throw                                                                   *)

DbFailConfigs ==
    {[storage |-> "database", hasSecondary |-> TRUE, window |-> 1, max |-> 2,
      detection |-> "ip", customRules |-> <<>>]}

DbFailWrite(p, setFails) == Write(p, setFails) /\ stats' = Finished(p)

DbFailTick == clock + 500 <= MaxIndepTime /\ Tick(500)

NextDbFail ==
    \/ DbFailTick
    \/ \E p \in Procs : ConcRequest(p)
    \/ \E p \in Procs : ConcDecide(p, 0, 0)
    \/ \E p \in Procs, f \in BOOLEAN : DbFailWrite(p, f)

SpecDbFail == InitWith(DbFailConfigs) /\ [][NextDbFail]_vars

(* the write of p lands in this step *)
Lands(p) == req[p].pc = "writing" /\ req'[p].pc = "idle"

(* C25: a database write that throws, an insert that meets a record of its *)
(* key included, leaves the table as it was, so that the next get returns  *)
(* what it would have returned without the write, and the request is       *)
(* answered as admitted with the limit, remaining and resetAt of the       *)
(* entry it tried to write.                                                *)
C25_FailedWriteSwallowed ==
    [][\A p \in Procs :
          (/\ Lands(p)
           /\ \/ last'.failed
              \/ ~req[p].update /\ DbCreateThrows(store, req[p].key))
          => /\ store' = store
             /\ StorageGet(cfg, store', req[p].key, clock', FALSE)
                    = StorageGet(cfg, store, req[p].key, clock, FALSE)
             /\ last'.success /\ last'.kind \in {"create", "reset", "increment"}
             /\ last'.limit = req[p].max
             /\ last'.remaining = Max0(req[p].max - req[p].value.count)
             /\ last'.resetAt
                    = req[p].value.lastRequest + req[p].window * MsPerSec]_vars

(* the second of two concurrent first requests inserted after the first *)
C25_Witness ==
    /\ Quiescent
    /\ last.kind = "create" /\ last.success /\ ~last.failed
    /\ last.remaining = cfg.max - 1
    /\ last.key \in DOMAIN store
    /\ store[last.key].lastRequest < last.now

----------------------------------------------------------------------------
(* The in-memory map over time.  The plugin starts no timer: the map is    *)
(* touched by the get and the set of a request only.  Time passes and a    *)
(* handler that was started runs to its end; no request has to arrive.     *)

SweepConfigs ==
    {[storage |-> "memory", hasSecondary |-> FALSE, window |-> 1, max |-> 2,
      detection |-> "ip", customRules |-> <<>>]}

SweepPaths == {PathA, PathH}

SweepKeys ==
    {storageKey(resolveIdentifier("ip", NoSession, Ip1, path)) :
        path \in SweepPaths}

SweepRequest(path) == SeqRequest(path)

SweepDecide == SeqDecide(0, 0)

NextSweep ==
    \/ IndepTick
    \/ \E path \in SweepPaths : SweepRequest(path)
    \/ SweepDecide

SpecSweep ==
    /\ InitWith(SweepConfigs)
    /\ [][NextSweep]_vars
    /\ WF_vars(IndepTick)
    /\ WF_vars(SweepDecide)

Expired(key) == key \in DOMAIN store /\ clock >= store[key].expiresAt

(* C26: an entry of the in-memory map whose expiresAt has passed is        *)
(* eventually removed from the map, whether or not its key is requested    *)
(* again.                                                                  *)
C26_ExpiredRemoved ==
    \A key \in SweepKeys : Expired(key) ~> (key \notin DOMAIN store)

----------------------------------------------------------------------------
(* C27: in sequential runs without storage failures the entry stored for   *)
(* a key has 1 <= count <= max of the rule that governs the key's path.    *)
C27_CountWithinMax ==
    (Settled /\ StoredNow.present) =>
        /\ 1 <= StoredNow.count
        /\ StoredNow.count <= DeclaredRule(last.path).max

----------------------------------------------------------------------------
(* C28: under every interleaving of the requests of one key, the           *)
(* windowStart (lastRequest) stored for the key never decreases.           *)
C28_WindowStartMonotone ==
    [][\A key \in DOMAIN store \cap DOMAIN store' :
          Stored(cfg, store', key).lastRequest
              >= Stored(cfg, store, key).lastRequest]_vars

----------------------------------------------------------------------------
(* C29: every response has 0 <= remaining <= limit, and remaining = 0 when *)
(* success is false.                                                       *)
C29_RemainingInRange ==
    (Responded /\ last.kind # "threw") =>
        /\ 0 <= last.remaining
        /\ last.remaining <= last.limit
        /\ ~last.success => last.remaining = 0

(* an increment of an entry that already holds max admissions *)
C29_Witness ==
    /\ last.kind = "increment"
    /\ last.data.count + 1 > last.limit
    /\ last.limit >= 1
    /\ last.remaining = 0

====
